---- MODULE Spec2Model ----
(***************************************************************************)
(* Conversation storage of llm-council: the flat-file backend              *)
(* (src/backend/storage.py) and the relational backend                     *)
(* (src/api/storage.py), and the leaderboard aggregation                   *)
(* get_overall_scores that both files carry.                               *)
(*                                                                         *)
(* A Python dict is a function whose domain is its set of keys, a Python   *)
(* list is a sequence.  A JSON document on disk is what json.dump writes:  *)
(* an object is the sequence of its members <<key, value>>, an array is a  *)
(* sequence.  json.load rebuilds the dicts.                                *)
(*                                                                         *)
(* Every step applies one operation, with the same arguments, to both      *)
(* backends; the two backends share no state.                              *)
(***************************************************************************)
EXTENDS Integers, Sequences, FiniteSets, TLC

VARIABLES
    files,      \* flat-file backend: DATA_DIR, conversation id -> JSON document of <id>.json
    flatRet,    \* flat-file backend: how the last operation ended
    pool,       \* relational backend: the module global `pool`
    held,       \* relational backend: connections acquired and not yet released
    apiRet      \* relational backend: how the last operation ended

vars == <<files, flatRet, pool, held, apiRet>>

----------------------------------------------------------------------------
(* Bounds and input sets *)

\* Most messages the flat-file store holds in total.
MaxMsgs == 2

ConvIds == {"c1", "c2"}
Times == {1}                          \* values of datetime.utcnow().isoformat()
NewTitles == {"T"}                    \* arguments of update_conversation_title
Contents == {"hi"}                    \* arguments of add_user_message

Range(s) == {s[i] : i \in DOMAIN s}

\* One judge's ranking result, with and without the parsed_ranking key.
Ranked(judge, ranking) == [model |-> judge, parsed_ranking |-> ranking]
Unparsed(judge) == [model |-> judge]

\* stage2 arguments of add_assistant_message: one judge ranking two labels;
\* three judges ranking two labels.
Stage2Inputs ==
    { << Ranked("j1", <<"A", "B">>) >>,
      << Ranked("j1", <<"A", "B">>), Ranked("j2", <<"B", "A">>),
         Ranked("j3", <<"B", "A">>) >> }
Stage1Inputs == { <<"r1">> }
Stage3Inputs == { "final" }

\* Message lists of the conversation dicts handed to save_conversation: a user
\* message and an assistant message without its stage2 key; an assistant message
\* whose stage2 is the empty list and one with three judges, of whom one has no
\* parsed_ranking key and one an empty parsed_ranking.
SaveMessageLists ==
    { << [role |-> "user", content |-> "hi"],
         [role |-> "assistant", stage1 |-> <<"r1">>, stage3 |-> "final"] >>,
      << [role |-> "assistant", stage1 |-> <<"r1">>, stage2 |-> <<>>,
          stage3 |-> "final"],
         [role |-> "assistant", stage1 |-> <<"r1">>,
          stage2 |-> << Ranked("j1", <<"B">>), Unparsed("j2"), Ranked("j3", <<>>) >>,
          stage3 |-> "final"] >> }
SaveInputs ==
    { [id |-> id, created_at |-> 1, title |-> "T", messages |-> m] :
        id \in ConvIds, m \in SaveMessageLists }

----------------------------------------------------------------------------
(* Python and JSON helpers *)

\* dict.get(key, default)
Get(d, key, default) == IF key \in DOMAIN d THEN d[key] ELSE default

\* The keys of the dicts the code builds, in the order it inserts them.
ConversationKeys == << "id", "created_at", "title", "messages", "archived" >>
MessageKeys == << "role", "content", "stage1", "stage2", "stage3" >>
RankingKeys == << "model", "parsed_ranking" >>

\* The dicts the code stores are of three kinds; a member that holds a list of
\* dicts names the kind of its items, any other member holds a plain value.
Keys(kind) ==
    CASE kind = "conversation" -> ConversationKeys
      [] kind = "message" -> MessageKeys
      [] kind = "ranking" -> RankingKeys
ItemKind(kind, key) ==
    IF kind = "conversation" /\ key = "messages" THEN "message"
    ELSE IF kind = "message" /\ key = "stage2" THEN "ranking"
    ELSE "plain"

\* json.dump of a dict: the object's members in key order, lists of dicts dumped in turn.
RECURSIVE Dump(_, _)
Dump(kind, d) ==
    LET ks == SelectSeq(Keys(kind), LAMBDA k : k \in DOMAIN d)
    IN  [i \in 1..Len(ks) |->
            <<ks[i],
              IF ItemKind(kind, ks[i]) = "plain" THEN d[ks[i]]
              ELSE [j \in DOMAIN d[ks[i]] |-> Dump(ItemKind(kind, ks[i]), d[ks[i]][j])]>>]

\* json.load of an object: a dict; of a repeated key the last member wins.
RECURSIVE Load(_, _)
Load(kind, obj) ==
    [k \in {obj[i][1] : i \in DOMAIN obj} |->
        LET i == CHOOSE i \in DOMAIN obj :
                    /\ obj[i][1] = k
                    /\ \A j \in (i + 1)..Len(obj) : obj[j][1] # k
        IN  IF ItemKind(kind, k) = "plain" THEN obj[i][2]
            ELSE [j \in DOMAIN obj[i][2] |-> Load(ItemKind(kind, k), obj[i][2][j])]]

json_dump(conversation) == Dump("conversation", conversation)
json_load(doc) == Load("conversation", doc)

\* open(path, 'w') + json.dump: the file of conversation `id` now holds `conversation`.
WriteFile(fs, id, conversation) ==
    [i \in (DOMAIN fs) \cup {id} |-> IF i = id THEN json_dump(conversation) ELSE fs[i]]

\* os.remove(path)
RemoveFile(fs, id) == [i \in (DOMAIN fs) \ {id} |-> fs[i]]

RECURSIVE SumOver(_, _)
SumOver(S, f) ==
    IF S = {} THEN 0
    ELSE LET x == CHOOSE x \in S : TRUE IN f[x] + SumOver(S \ {x}, f)

\* The number of messages in the files of fs, read off the documents.
DocMessages(doc) == doc[CHOOSE i \in DOMAIN doc : doc[i][1] = "messages"][2]
TotalMessages(fs) == SumOver(DOMAIN fs, [i \in DOMAIN fs |-> Len(DocMessages(fs[i]))])

----------------------------------------------------------------------------
(* How an operation ends *)

\* Python's None: a value that is no dict (it has none of their keys).
None == [None |-> TRUE]
\* op(args) returned value, or raised exc(text).
Returned(op, args, value) ==
    [op |-> op, args |-> args, outcome |-> "return", value |-> value]
Raised(op, args, exc, text) ==
    [op |-> op, args |-> args, outcome |-> "raise", value |-> [exc |-> exc, text |-> text]]

\* f"Conversation {conversation_id} not found"
NotFoundText(id) == <<"Conversation ", id, " not found">>

----------------------------------------------------------------------------
(* Flat-file backend, src/backend/storage.py *)

\* get_conversation: None when the file does not exist, else json.load of it.
get_conversation(fs, id) == IF id \notin DOMAIN fs THEN None ELSE json_load(fs[id])

\* save_conversation: overwrite (or create) the file of conversation['id'].
save_conversation(fs, conversation) == WriteFile(fs, conversation["id"], conversation)

Flat_create_conversation(id, now) ==
    LET conversation == [id |-> id, created_at |-> now,
                         title |-> "New Conversation", messages |-> <<>>]
    IN  /\ files' = WriteFile(files, id, conversation)
        /\ flatRet' = Returned("create_conversation", <<id>>, conversation)

Flat_get_conversation(id) ==
    /\ flatRet' = Returned("get_conversation", <<id>>, get_conversation(files, id))
    /\ UNCHANGED files

\* The orders in which os.listdir may name the files of a directory.
Perms(S) == {p \in [1..Cardinality(S) -> S] : \A x \in S : \E i \in DOMAIN p : p[i] = x}

\* list.sort(key=lambda x: x[field], reverse=True): descending and stable.
InsertDesc(sorted, x, field) ==
    LET after == {i \in DOMAIN sorted : sorted[i][field] < x[field]}
        k == IF after = {} THEN Len(sorted) + 1
             ELSE CHOOSE i \in after : \A j \in after : i <= j
    IN  SubSeq(sorted, 1, k - 1) \o <<x>> \o SubSeq(sorted, k, Len(sorted))

RECURSIVE SortDesc(_, _)
SortDesc(s, field) ==
    IF Len(s) = 0 THEN <<>>
    ELSE InsertDesc(SortDesc(SubSeq(s, 1, Len(s) - 1), field), s[Len(s)], field)

\* The metadata list_conversations returns, the files read in `listing` order.
Metadata(data) ==
    [id |-> data["id"], created_at |-> data["created_at"],
     title |-> Get(data, "title", "New Conversation"),
     message_count |-> Len(data["messages"]),
     archived |-> Get(data, "archived", FALSE)]

list_conversations(fs, listing, include_archived) ==
    LET kept == SelectSeq(listing, LAMBDA f :
                    ~(~include_archived /\ Get(json_load(fs[f]), "archived", FALSE)))
        conversations == [i \in 1..Len(kept) |-> Metadata(json_load(fs[kept[i]]))]
    IN  SortDesc(conversations, "created_at")

Flat_list_conversations(include_archived) ==
    /\ \E listing \in Perms(DOMAIN files) :
          flatRet' = Returned("list_conversations", <<include_archived>>,
                              list_conversations(files, listing, include_archived))
    /\ UNCHANGED files

Flat_save_conversation(conversation) ==
    /\ files' = save_conversation(files, conversation)
    /\ flatRet' = Returned("save_conversation", <<conversation>>, None)

\* conversation["messages"].append({...}) put at the head of the list instead.
PrependUserMessage(id, content) ==
    LET conversation == get_conversation(files, id) IN
    IF conversation = None
    THEN /\ flatRet' = Raised("add_user_message", <<id, content>>, "ValueError", NotFoundText(id))
         /\ UNCHANGED files
    ELSE /\ files' = save_conversation(files,
                [conversation EXCEPT !["messages"] =
                    <<[role |-> "user", content |-> content]>> \o @])
         /\ flatRet' = Returned("add_user_message", <<id, content>>, None)

Flat_add_user_message(id, content) ==
    LET conversation == get_conversation(files, id) IN
    IF conversation = None
    THEN /\ flatRet' = Raised("add_user_message", <<id, content>>, "ValueError", NotFoundText(id))
         /\ UNCHANGED files
    ELSE /\ files' = save_conversation(files,
                [conversation EXCEPT !["messages"] =
                    Append(@, [role |-> "user", content |-> content])])
         /\ flatRet' = Returned("add_user_message", <<id, content>>, None)

Flat_add_assistant_message(id, stage1, stage2, stage3) ==
    LET conversation == get_conversation(files, id) IN
    IF conversation = None
    THEN /\ flatRet' = Raised("add_assistant_message", <<id, stage1, stage2, stage3>>,
                            "ValueError", NotFoundText(id))
         /\ UNCHANGED files
    ELSE /\ files' = save_conversation(files,
                [conversation EXCEPT !["messages"] =
                    Append(@, [role |-> "assistant", stage1 |-> stage1,
                               stage2 |-> stage2, stage3 |-> stage3])])
         /\ flatRet' = Returned("add_assistant_message", <<id, stage1, stage2, stage3>>, None)

\* dict[key] = value
SetItem(d, key, value) == [k \in (DOMAIN d) \cup {key} |-> IF k = key THEN value ELSE d[k]]

Flat_update_conversation_title(id, title) ==
    LET conversation == get_conversation(files, id) IN
    IF conversation = None
    THEN /\ flatRet' = Raised("update_conversation_title", <<id, title>>,
                            "ValueError", NotFoundText(id))
         /\ UNCHANGED files
    ELSE /\ files' = save_conversation(files, SetItem(conversation, "title", title))
         /\ flatRet' = Returned("update_conversation_title", <<id, title>>, None)

Flat_archive_conversation(id, archived) ==
    LET conversation == get_conversation(files, id) IN
    IF conversation = None
    THEN /\ flatRet' = Raised("archive_conversation", <<id, archived>>,
                            "ValueError", NotFoundText(id))
         /\ UNCHANGED files
    ELSE /\ files' = save_conversation(files, SetItem(conversation, "archived", archived))
         /\ flatRet' = Returned("archive_conversation", <<id, archived>>, None)

Flat_delete_conversation(id) ==
    /\ files' = IF id \in DOMAIN files THEN RemoveFile(files, id) ELSE files
    /\ flatRet' = Returned("delete_conversation", <<id>>, None)

----------------------------------------------------------------------------
(* get_overall_scores: the aggregation both files carry, line for line *)

\* a / b of two ints, kept exact: the fraction in lowest terms.
Abs(n) == IF n < 0 THEN -n ELSE n
RECURSIVE Gcd(_, _)
Gcd(a, b) == IF b = 0 THEN a ELSE Gcd(b, a % b)
Ratio(a, b) == LET g == Gcd(Abs(a), b) IN [num |-> a \div g, den |-> b \div g]

\* points = num_models - position
PointsFromOne(num_models, position) == num_models - (position + 1)
Points(num_models, position) == num_models - position

\* if not stage2: continue
CountsEveryStage2(stage2) == FALSE
NoStage2(stage2) == Len(stage2) = 0

\* if not parsed_ranking: continue
NoRanking(parsed_ranking) == Len(parsed_ranking) = 0

\* model_scores: a dict in insertion order, `order` its keys and `tab` its values.
NoScores == [order |-> <<>>, tab |-> [l \in {} |-> 0]]

NewEntry(label) ==
    [model |-> label, total_points |-> 0, rankings_received |-> 0,
     first_places |-> 0, second_places |-> 0, third_places |-> 0,
     position_history |-> <<>>]

\* The body of `for position, ranked_label in enumerate(parsed_ranking)`.
Award(model_scores, ranked_label, position, num_models) ==
    LET points == Points(num_models, position)
        known == ranked_label \in DOMAIN model_scores.tab
        e == IF known THEN model_scores.tab[ranked_label] ELSE NewEntry(ranked_label)
        e2 == [e EXCEPT
                 !.total_points = @ + points,
                 !.rankings_received = @ + 1,
                 !.position_history = Append(@, position + 1),
                 !.first_places = IF position = 0 THEN @ + 1 ELSE @,
                 !.second_places = IF position = 1 THEN @ + 1 ELSE @,
                 !.third_places = IF position = 2 THEN @ + 1 ELSE @]
    IN  [order |-> IF known THEN model_scores.order
                   ELSE Append(model_scores.order, ranked_label),
         tab |-> [l \in (DOMAIN model_scores.tab) \cup {ranked_label} |->
                    IF l = ranked_label THEN e2 ELSE model_scores.tab[l]]]

\* for position, ranked_label in enumerate(parsed_ranking), from 0-indexed `position` on.
RECURSIVE ScanRanking(_, _, _, _)
ScanRanking(model_scores, parsed_ranking, position, num_models) ==
    IF position >= Len(parsed_ranking) THEN model_scores
    ELSE ScanRanking(
            Award(model_scores, parsed_ranking[position + 1], position, num_models),
            parsed_ranking, position + 1, num_models)

\* for ranking_result in stage2, from the j-th on.
RECURSIVE ScanStage2(_, _, _)
ScanStage2(acc, stage2, j) ==
    IF j > Len(stage2) THEN acc
    ELSE LET parsed_ranking == Get(stage2[j], "parsed_ranking", <<>>) IN
         IF NoRanking(parsed_ranking) THEN ScanStage2(acc, stage2, j + 1)
         ELSE ScanStage2(
                [acc EXCEPT
                   !.total_rankings = @ + 1,
                   !.model_scores = ScanRanking(@, parsed_ranking, 0, Len(stage2))],
                stage2, j + 1)

\* for message in data.get("messages", []), from the i-th on.
RECURSIVE ScanMessages(_, _, _)
ScanMessages(acc, messages, i) ==
    IF i > Len(messages) THEN acc
    ELSE LET message == messages[i]
             stage2 == Get(message, "stage2", <<>>)
         IN  IF Get(message, "role", None) # "assistant" THEN ScanMessages(acc, messages, i + 1)
             ELSE IF NoStage2(stage2) THEN ScanMessages(acc, messages, i + 1)
             ELSE ScanMessages(
                    ScanStage2([acc EXCEPT !.total_conversations = @ + 1], stage2, 1),
                    messages, i + 1)

\* if data.get("archived", False): continue
NeverArchived(data) == FALSE
IsArchived(data) == Get(data, "archived", FALSE)

\* for filename in os.listdir(DATA_DIR), from the k-th of `listing` on.
RECURSIVE ScanFiles(_, _, _, _)
ScanFiles(acc, fs, listing, k) ==
    IF k > Len(listing) THEN acc
    ELSE LET data == json_load(fs[listing[k]]) IN
         IF IsArchived(data) THEN ScanFiles(acc, fs, listing, k + 1)
         ELSE ScanFiles(ScanMessages(acc, Get(data, "messages", <<>>), 1), fs, listing, k + 1)

\* scores with average_position and average_points set and position_history deleted.
Averaged(scores) ==
    [model |-> scores.model, total_points |-> scores.total_points,
     rankings_received |-> scores.rankings_received,
     first_places |-> scores.first_places, second_places |-> scores.second_places,
     third_places |-> scores.third_places,
     average_position |->
        Ratio(SumOver(DOMAIN scores.position_history, scores.position_history),
              Len(scores.position_history)),
     average_points |-> Ratio(scores.total_points, scores.rankings_received)]

\* leaderboard.sort(key=lambda x: x["total_points"], reverse=True)
Unsorted(leaderboard) == leaderboard
SortLeaderboard(leaderboard) == SortDesc(leaderboard, "total_points")

\* The leaderboard: the entries of model_scores that received a ranking, sorted.
Leaderboard(model_scores) ==
    LET listed == SelectSeq(model_scores.order,
                      LAMBDA l : model_scores.tab[l].rankings_received > 0)
    IN  SortLeaderboard([i \in 1..Len(listed) |-> Averaged(model_scores.tab[listed[i]])])

get_overall_scores(fs, listing) ==
    LET acc == ScanFiles([model_scores |-> NoScores, total_conversations |-> 0,
                          total_rankings |-> 0], fs, listing, 1)
    IN  [leaderboard |-> Leaderboard(acc.model_scores),
         total_conversations_analyzed |-> acc.total_conversations,
         total_rankings_processed |-> acc.total_rankings]

Flat_get_overall_scores ==
    /\ \E listing \in Perms(DOMAIN files) :
          flatRet' = Returned("get_overall_scores", <<>>, get_overall_scores(files, listing))
    /\ UNCHANGED files

----------------------------------------------------------------------------
(* Relational backend, src/api/storage.py *)

ApiReturned(op, args, value, acquired) ==
    [op |-> op, args |-> args, outcome |-> "return", value |-> value, acquired |-> acquired]
ApiRaised(op, args, exc, text, acquired) ==
    [op |-> op, args |-> args, outcome |-> "raise", value |-> [exc |-> exc, text |-> text],
     acquired |-> acquired]

\* The first statement of every store operation:
\*     conn = await ensure_pool().acquire()
\* ensure_pool is declared `async def`, so the call ensure_pool() is a coroutine
\* object; `await` applies to the whole primary ensure_pool().acquire(), and the
\* attribute lookup on the coroutine object raises AttributeError.  The statement
\* stands before `try:`, so neither the body nor the `finally` clause runs, no
\* connection is acquired, and init_pool never runs: `pool` stays None.
WithConnection(op, args) ==
    /\ apiRet' = ApiRaised(op, args, "AttributeError",
                           <<"'coroutine' object has no attribute '", "acquire", "'">>, 0)
    /\ UNCHANGED <<pool, held>>

Api_create_conversation(id) == WithConnection("create_conversation", <<id>>)
Api_get_conversation(id) == WithConnection("get_conversation", <<id>>)
Api_list_conversations(include_archived) == WithConnection("list_conversations", <<include_archived>>)
\* The second definition, `async def save_conversation`, is the one the module keeps.
Api_save_conversation(conversation) == WithConnection("save_conversation", <<conversation>>)
Api_add_user_message(id, content) == WithConnection("add_user_message", <<id, content>>)
Api_add_assistant_message(id, stage1, stage2, stage3) ==
    WithConnection("add_assistant_message", <<id, stage1, stage2, stage3>>)
Api_update_conversation_title(id, title) == WithConnection("update_conversation_title", <<id, title>>)
Api_archive_conversation(id, archived) == WithConnection("archive_conversation", <<id, archived>>)
Api_delete_conversation(id) == WithConnection("delete_conversation", <<id>>)

\* get_overall_scores calls ensure_data_dir() first, whose body names Path; the
\* module does not import Path, so the call raises NameError before any file is read.
Api_get_overall_scores ==
    /\ apiRet' = ApiRaised("get_overall_scores", <<>>, "NameError",
                           <<"name '", "Path", "' is not defined">>, 0)
    /\ UNCHANGED <<pool, held>>

----------------------------------------------------------------------------
(* One operation, applied to both backends *)

Call_create_conversation(id) ==
    /\ \E now \in Times : Flat_create_conversation(id, now)
    /\ Api_create_conversation(id)

Call_get_conversation(id) == Flat_get_conversation(id) /\ Api_get_conversation(id)

Call_list_conversations(include_archived) ==
    Flat_list_conversations(include_archived) /\ Api_list_conversations(include_archived)

Call_save_conversation(conversation) ==
    /\ TotalMessages(RemoveFile(files, conversation["id"])) + Len(conversation["messages"])
          <= MaxMsgs
    /\ Flat_save_conversation(conversation)
    /\ Api_save_conversation(conversation)

Call_add_user_message(id, content) ==
    /\ id \in DOMAIN files => TotalMessages(files) < MaxMsgs
    /\ Flat_add_user_message(id, content)
    /\ Api_add_user_message(id, content)

Call_add_assistant_message(id, stage1, stage2, stage3) ==
    /\ id \in DOMAIN files => TotalMessages(files) < MaxMsgs
    /\ Flat_add_assistant_message(id, stage1, stage2, stage3)
    /\ Api_add_assistant_message(id, stage1, stage2, stage3)

Call_update_conversation_title(id, title) ==
    Flat_update_conversation_title(id, title) /\ Api_update_conversation_title(id, title)

Call_archive_conversation(id, archived) ==
    Flat_archive_conversation(id, archived) /\ Api_archive_conversation(id, archived)

Call_delete_conversation(id) == Flat_delete_conversation(id) /\ Api_delete_conversation(id)

Call_get_overall_scores == Flat_get_overall_scores /\ Api_get_overall_scores

Init ==
    /\ files = [i \in {} |-> <<>>]
    /\ flatRet = Returned("init", <<>>, None)
    /\ pool = None
    /\ held = 0
    /\ apiRet = ApiReturned("init", <<>>, None, 0)

Next ==
    \/ \E id \in ConvIds : Call_create_conversation(id)
    \/ \E id \in ConvIds : Call_get_conversation(id)
    \/ \E include_archived \in BOOLEAN : Call_list_conversations(include_archived)
    \/ \E conversation \in SaveInputs : Call_save_conversation(conversation)
    \/ \E id \in ConvIds, content \in Contents : Call_add_user_message(id, content)
    \/ \E id \in ConvIds, stage1 \in Stage1Inputs, stage2 \in Stage2Inputs,
          stage3 \in Stage3Inputs : Call_add_assistant_message(id, stage1, stage2, stage3)
    \/ \E id \in ConvIds, title \in NewTitles : Call_update_conversation_title(id, title)
    \/ \E id \in ConvIds, archived \in BOOLEAN : Call_archive_conversation(id, archived)
    \/ \E id \in ConvIds : Call_delete_conversation(id)
    \/ Call_get_overall_scores

Spec == Init /\ [][Next]_vars

----------------------------------------------------------------------------
(* What the claims speak of, read off the stored documents *)

Scored == flatRet.op = "get_overall_scores" /\ flatRet.outcome = "return"

\* The conversations of the flat-file store that are not archived.
Active(fs) ==
    {id \in DOMAIN fs :
        LET data == json_load(fs[id])
        IN  ~("archived" \in DOMAIN data /\ data["archived"] = TRUE)}

\* <<id, i>>: the i-th message of conversation id, one of ids, is an assistant
\* message with a non-empty stage2.
RankedMessagesIn(fs, ids) ==
    {m \in UNION {{<<id, i>> : i \in DOMAIN json_load(fs[id])["messages"]} : id \in ids} :
        LET message == json_load(fs[m[1]])["messages"][m[2]]
        IN  /\ "role" \in DOMAIN message /\ message["role"] = "assistant"
            /\ "stage2" \in DOMAIN message /\ message["stage2"] # <<>>}
RankedMessages(fs) == RankedMessagesIn(fs, Active(fs))

Stage2At(fs, m) == json_load(fs[m[1]])["messages"][m[2]]["stage2"]

\* <<id, i, j>>: ranking result j of ranked message <<id, i>> has a non-empty parsed_ranking.
Rankings(fs) ==
    {r \in UNION {{<<m[1], m[2], j>> : j \in DOMAIN Stage2At(fs, m)} : m \in RankedMessages(fs)} :
        LET result == Stage2At(fs, <<r[1], r[2]>>)[r[3]]
        IN  "parsed_ranking" \in DOMAIN result /\ result["parsed_ranking"] # <<>>}

RankingAt(fs, r) == Stage2At(fs, <<r[1], r[2]>>)[r[3]]["parsed_ranking"]

\* <<id, i, j, p>>: place p (1-indexed) of ranking <<id, i, j>>.
Occurrences(fs) ==
    UNION {{<<r[1], r[2], r[3], p>> : p \in DOMAIN RankingAt(fs, r)} : r \in Rankings(fs)}

LabelAt(fs, o) == RankingAt(fs, <<o[1], o[2], o[3]>>)[o[4]]
OccurrencesOf(fs, label) == {o \in Occurrences(fs) : LabelAt(fs, o) = label}
RankedLabels(fs) == {LabelAt(fs, o) : o \in Occurrences(fs)}

\* Sum over the occurrences of label of (num_models - position), position 0-indexed.
InversePoints(fs, label) ==
    LET occ == OccurrencesOf(fs, label)
    IN  SumOver(occ, [o \in occ |-> Len(Stage2At(fs, <<o[1], o[2]>>)) - (o[4] - 1)])

EntriesOf(leaderboard, label) == {i \in DOMAIN leaderboard : leaderboard[i].model = label}

----------------------------------------------------------------------------
(* Claims *)

\* C1: whenever get_overall_scores returns, every label that occurs in a
\* parsed_ranking of an assistant message of a non-archived conversation has a
\* leaderboard entry whose total_points is the sum, over the label's occurrences,
\* of num_models - position (position 0-indexed, num_models the length of the
\* stage2 list that holds the occurrence).
C1_TotalPoints ==
    Scored =>
        \A label \in RankedLabels(files) :
            /\ EntriesOf(flatRet.value.leaderboard, label) # {}
            /\ \A i \in EntriesOf(flatRet.value.leaderboard, label) :
                  flatRet.value.leaderboard[i].total_points = InversePoints(files, label)

\* A label ranked in two conversations, four times or more, has been scored.
C1_Witness ==
    /\ Scored
    /\ \E label \in RankedLabels(files) :
          /\ Cardinality(OccurrencesOf(files, label)) >= 4
          /\ Cardinality({o[1] : o \in OccurrencesOf(files, label)}) = 2

\* The store without its archived conversations.
ActiveFiles(fs) == [id \in Active(fs) |-> fs[id]]

\* C2: archived conversations contribute nothing.  (a) What get_overall_scores
\* returns is what it returns over the non-archived conversations alone.
\* (b) Once archive_conversation(id, True) has returned, the scores are those of
\* the store as it was before the call with conversation id taken out of it.
C2_ArchivedContributeNothing ==
    [][ /\ Scored' =>
            flatRet'.value \in {get_overall_scores(ActiveFiles(files'), listing) :
                                    listing \in Perms(Active(files'))}
        /\ ( /\ flatRet'.op = "archive_conversation"
             /\ flatRet'.outcome = "return"
             /\ flatRet'.args[2] = TRUE )
           => LET id == flatRet'.args[1]
                  others == (DOMAIN files) \ {id}
              IN  /\ DOMAIN files' = DOMAIN files
                  /\ \A listing \in Perms(DOMAIN files) :
                        get_overall_scores(files', listing)
                          \in {get_overall_scores([i \in others |-> files[i]], l) :
                                  l \in Perms(others)}
      ]_vars

\* Scores were taken while one conversation with ranking data was archived and
\* another with ranking data was not.
C2_Witness ==
    /\ Scored
    /\ \E a \in DOMAIN files, b \in Active(files) :
          /\ a \notin Active(files)
          /\ RankedMessagesIn(files, {a}) # {}
          /\ RankedMessagesIn(files, {b}) # {}

\* The store operations of both files, and those among them that change the store.
StoreOps ==
    {"create_conversation", "get_conversation", "list_conversations",
     "save_conversation", "add_user_message", "add_assistant_message",
     "update_conversation_title", "archive_conversation", "delete_conversation"}
MutatingOps ==
    {"add_user_message", "add_assistant_message", "update_conversation_title",
     "archive_conversation", "delete_conversation"}

\* C3: in each backend the aggregation is a read-and-reduce over the
\* conversations of that backend's store: a get_overall_scores call returns a
\* result, and the result counts every assistant message with a non-empty stage2
\* that the store holds in a conversation that is not archived.
C3_AggregationReadsStore ==
    /\ flatRet.op = "get_overall_scores" =>
          /\ flatRet.outcome = "return"
          /\ flatRet.value.total_conversations_analyzed = Cardinality(RankedMessages(files))
          /\ \A label \in RankedLabels(files) :
                EntriesOf(flatRet.value.leaderboard, label) # {}
    /\ apiRet.op = "get_overall_scores" => apiRet.outcome = "return"

\* C4: in each backend, get_conversation(c.id) right after save_conversation(c)
\* returns a conversation whose messages are c's messages, in c's order.
C4_RoundTrip ==
    [][ ( /\ flatRet.op = "save_conversation"
          /\ flatRet'.op = "get_conversation"
          /\ flatRet'.args[1] = flatRet.args[1]["id"] )
        => /\ flatRet'.outcome = "return"
           /\ flatRet'.value # None
           /\ flatRet'.value["messages"] = flatRet.args[1]["messages"]
           /\ apiRet'.outcome = "return"
           /\ apiRet'.value # None
           /\ apiRet'.value["messages"] = flatRet.args[1]["messages"]
      ]_vars

\* C5: in each backend, a mutating operation given a conversation id that the
\* store does not hold ends in a failure that carries the id, and leaves the
\* store as it was.  (The relational store holds no conversation at any time: no
\* statement of it is ever executed.)
C5_NotFound ==
    [][ /\ ( flatRet'.op \in MutatingOps /\ flatRet'.args[1] \notin DOMAIN files )
           => /\ flatRet'.outcome = "raise"
              /\ flatRet'.args[1] \in Range(flatRet'.value.text)
              /\ files' = files
        /\ apiRet'.op \in MutatingOps
           => /\ apiRet'.outcome = "raise"
              /\ apiRet'.args[1] \in Range(apiRet'.value.text)
      ]_vars

\* What list_conversations tells of each conversation, order aside.
Listed(rows) == {[id |-> rows[i].id, message_count |-> rows[i].message_count,
                  archived |-> rows[i].archived] : i \in DOMAIN rows}

\* C6: the same operations having been applied to both backends from empty
\* stores, get_conversation(id) returns in both a conversation with the same id,
\* title and messages, or None in both, and list_conversations returns in both
\* the same ids with the same message_count and archived values.
C6_SameContract ==
    /\ flatRet.op = "get_conversation" =>
          /\ apiRet.outcome = flatRet.outcome
          /\ (apiRet.value = None) = (flatRet.value = None)
          /\ flatRet.value # None =>
                /\ apiRet.value["id"] = flatRet.value["id"]
                /\ apiRet.value["title"] = flatRet.value["title"]
                /\ apiRet.value["messages"] = flatRet.value["messages"]
    /\ flatRet.op = "list_conversations" =>
          /\ apiRet.outcome = flatRet.outcome
          /\ Listed(apiRet.value) = Listed(flatRet.value)

\* C7: every store operation of the relational backend acquires exactly one
\* connection, and holds none once it has ended.
C7_OneConnectionPerOperation ==
    apiRet.op \in StoreOps => apiRet.acquired = 1 /\ held = 0

\* C8: whenever get_overall_scores returns, total_conversations_analyzed is the
\* number of assistant messages with a non-empty stage2 in non-archived
\* conversations (user messages and messages whose stage2 is missing or empty
\* are not counted), and over an empty store the result is an empty leaderboard
\* and two zero totals.
C8_ConversationsAnalyzed ==
    Scored =>
        /\ flatRet.value.total_conversations_analyzed = Cardinality(RankedMessages(files))
        /\ DOMAIN files = {} =>
              flatRet.value = [leaderboard |-> <<>>, total_conversations_analyzed |-> 0,
                               total_rankings_processed |-> 0]

\* Scores were taken over a conversation that holds a message whose stage2 is the
\* empty list, and one message was counted.
C8_Witness ==
    /\ Scored
    /\ flatRet.value.total_conversations_analyzed = 1
    /\ \E id \in Active(files) :
          \E i \in DOMAIN json_load(files[id])["messages"] :
              LET message == json_load(files[id])["messages"][i]
              IN  "stage2" \in DOMAIN message /\ message["stage2"] = <<>>

\* C9: whenever get_overall_scores returns, the leaderboard is sorted
\* non-increasing by total_points, and its entries are the labels that received
\* a ranking, each exactly once.
C9_SortedLeaderboard ==
    Scored =>
        LET leaderboard == flatRet.value.leaderboard IN
        /\ \A i \in 1..(Len(leaderboard) - 1) :
              leaderboard[i].total_points >= leaderboard[i + 1].total_points
        /\ \A label \in RankedLabels(files) :
              Cardinality(EntriesOf(leaderboard, label)) = 1
        /\ \A i \in DOMAIN leaderboard :
              /\ leaderboard[i].model \in RankedLabels(files)
              /\ leaderboard[i].rankings_received > 0

\* Every first ranking of the store names "A" first, so "A" is the first label
\* the scan meets, and "B" leads the leaderboard with more points.
C9_Witness ==
    /\ Scored
    /\ Len(flatRet.value.leaderboard) = 2
    /\ flatRet.value.leaderboard[1].model = "B"
    /\ flatRet.value.leaderboard[1].total_points > flatRet.value.leaderboard[2].total_points
    /\ \A r \in Rankings(files) : RankingAt(files, r)[1] = "A" \/ r[3] > 1

\* C10: in every ranking that get_overall_scores processes, first place is
\* awarded num_models points and last place 1 point; where the store holds a
\* single ranking that names its last label once, that label's total_points is 1.
C10_InverseScale ==
    Scored =>
        \A r \in Rankings(files) :
            LET parsed_ranking == RankingAt(files, r)
                num_models == Len(Stage2At(files, <<r[1], r[2]>>))
                last == parsed_ranking[Len(parsed_ranking)]
            IN  /\ Points(num_models, 0) = num_models
                /\ Points(num_models, Len(parsed_ranking) - 1) = 1
                /\ ( Rankings(files) = {r} /\ Cardinality(OccurrencesOf(files, last)) = 1 )
                   => \A i \in EntriesOf(flatRet.value.leaderboard, last) :
                         flatRet.value.leaderboard[i].total_points = 1

\* The message that an append operation builds from its arguments.
AppendedMessage(ret) ==
    IF ret.op = "add_user_message"
    THEN [role |-> "user", content |-> ret.args[2]]
    ELSE [role |-> "assistant", stage1 |-> ret.args[2],
          stage2 |-> ret.args[3], stage3 |-> ret.args[4]]

\* C11: in the flat-file backend, when add_user_message or add_assistant_message
\* returns, the conversation's stored messages are the previous messages
\* followed by exactly one new message with the given role and payload; every
\* other key of the conversation (id, title, created_at, archived) and every
\* other conversation are as before, and get_conversation returns the messages
\* in that order.
C11_AppendOnly ==
    [][ ( /\ flatRet'.op \in {"add_user_message", "add_assistant_message"}
          /\ flatRet'.outcome = "return" )
        => LET id == flatRet'.args[1] IN
           /\ id \in DOMAIN files
           /\ DOMAIN files' = DOMAIN files
           /\ \A other \in DOMAIN files \ {id} : files'[other] = files[other]
           /\ LET before == json_load(files[id])
                  after == json_load(files'[id])
              IN  /\ after["messages"] = Append(before["messages"], AppendedMessage(flatRet'))
                  /\ DOMAIN after = DOMAIN before
                  /\ \A key \in DOMAIN before \ {"messages"} : after[key] = before[key]
                  /\ get_conversation(files', id)["messages"]
                        = Append(get_conversation(files, id)["messages"],
                                 AppendedMessage(flatRet'))
      ]_vars

\* An assistant message was appended to a conversation whose only message was
\* a user message appended before it, next to another stored conversation.
C11_Witness ==
    /\ flatRet.op = "add_assistant_message"
    /\ flatRet.outcome = "return"
    /\ Cardinality(DOMAIN files) = 2
    /\ LET messages == json_load(files[flatRet.args[1]])["messages"]
       IN  /\ Len(messages) = 2
           /\ messages[1] = [role |-> "user", content |-> "hi"]
           /\ messages[2] = AppendedMessage(flatRet)

====
